---- MODULE Spec2Model ----
(***************************************************************************)
(* Model of the NT3H2111 NFC EEPROM driver (src/src/nt3h2111.c).           *)
(*                                                                         *)
(* The chip is a store of 256 pages of 16 bytes.  The driver's page        *)
(* transport (nt3h2111_read_page / nt3h2111_write_page) moves one page per *)
(* bus transaction and keeps the global last_write_time; the raw           *)
(* translator (nt3h2111_read_raw / nt3h2111_write_raw) splits byte ranges  *)
(* into page transactions; the region functions and the NDEF codec sit on  *)
(* top.  C integer widths are kept: a uint8_t parameter is its argument    *)
(* modulo 256, a uint16_t parameter modulo 65536.                          *)
(***************************************************************************)
EXTENDS Integers, Naturals, Sequences, FiniteSets, TLC

VARIABLES mem, last_write_time, now, pre, call, prev, ncalls, pc, req, tx

vars == <<mem, last_write_time, now, pre, call, prev, ncalls, pc, req, tx>>

----------------------------------------------------------------------------
(* Bounds of the model                                                     *)

MaxCalls == 2          \* public calls per behaviour
MaxFail  == 1          \* a call's failing transaction is its 1st..MaxFail-th
TxTime   == 400        \* microseconds one bus transaction takes in a whole call
NumSeeds == 1          \* initial page-store contents tried
MaxNdefFail == 3       \* same, for the calls of the NDEF codec
MaxRawFail == 5        \* same, for the multi-page raw writes
MaxTx    == 3          \* page calls per behaviour of the page transport
MaxConcTx == 2         \* the same with two execution contexts
MaxFairTx == 2         \* the same in the behaviours checked for progress
MaxFairTime == 7500    \* the clock stops here in those behaviours
MaxConcTime == 7500    \* the clock stops here when there are two contexts
MaxTime  == 15000      \* the clock of the page transport stops here
Quantum  == 2500       \* microseconds per clock tick of the page transport

----------------------------------------------------------------------------
(* Program constants                                                       *)

PageSize              == 16
NumPages              == 256
NT3H2111_USERDATA_LEN == 884
NT3H2111_SRAM_LEN     == 64
CommitDelay           == 5000
UserBase              == 16
SramBase              == 248 * 16

ESP_OK              == "ESP_OK"
ESP_FAIL            == "ESP_FAIL"
ESP_ERR_NO_MEM      == "ESP_ERR_NO_MEM"
ESP_ERR_INVALID_ARG == "ESP_ERR_INVALID_ARG"
ESP_ERR_NOT_FOUND   == "ESP_ERR_NOT_FOUND"

Byte == 0..255

\* Implicit conversion of an argument to a uint8_t / uint16_t parameter.
U8(x)  == x % 256
U16(x) == x % 65536

Min(a, b) == IF a < b THEN a ELSE b

----------------------------------------------------------------------------
(* The chip: the page store and its raw byte positions                     *)

\* Byte of a page store at raw position pos (0..4095).
ByteAt(m, pos) == m[pos \div PageSize][pos % PageSize]

\* A page-store content; differs between positions that agree modulo 256.
Pattern(seed, pos) == (seed + 3 * pos + 5 * (pos \div 16) + 17 * (pos \div 256)) % 256

InitStore(seed) ==
    [p \in 0..(NumPages - 1) |-> [i \in 0..(PageSize - 1) |-> Pattern(seed, p * PageSize + i)]]

\* A caller's data buffer of n bytes.
DataBuf(n) == [i \in 1..n |-> (77 + 11 * i + (i \div 16)) % 256]

\* A caller's destination buffer before the call fills it.
FreshBuf(n) == [i \in 1..n |-> 238]

----------------------------------------------------------------------------
(* Page transport, nt3h2111_read_page / nt3h2111_write_page, as one step   *)
(* each of a call that runs to completion.  A transport state st is        *)
(*   mem, last_write_time, now : the chip, the global timestamp, the clock *)
(*   bus     : the transactions this call has issued                       *)
(*   failing : the ordinals of the transactions that the bus fails         *)

\* while (last_write_time + 5000 > esp_timer_get_time()) sched_yield();
\* the time at which the loop is left.
WaitCommit(st) ==
    IF st.last_write_time + CommitDelay > st.now
    THEN st.last_write_time + CommitDelay
    ELSE st.now

TxFails(st) == (Len(st.bus) + 1) \in st.failing

\* i2c_read_reg(bus, address, page, data, 16)
nt3h2111_read_page(st, page, buf) ==
    LET t  == WaitCommit(st)
        ok == ~TxFails(st)
    IN  [st   |-> [st EXCEPT !.now = t + TxTime,
                             !.bus = Append(@, [kind |-> "R", page |-> page,
                                                start |-> t, end |-> t + TxTime,
                                                ok |-> ok, data |-> <<>>])],
         res  |-> IF ok THEN ESP_OK ELSE ESP_FAIL,
         data |-> IF ok THEN st.mem[page] ELSE buf]

\* last_write_time = esp_timer_get_time(); i2c_write_reg_n(bus, address, page, data, 16)
nt3h2111_write_page(st, page, data) ==
    LET t  == WaitCommit(st)
        ok == ~TxFails(st)
    IN  [st   |-> [st EXCEPT !.now = t + TxTime,
                             !.last_write_time = t,
                             !.mem = IF ok THEN [@ EXCEPT ![page] = data] ELSE @,
                             !.bus = Append(@, [kind |-> "W", page |-> page,
                                                start |-> t, end |-> t + TxTime,
                                                ok |-> ok, data |-> data])],
         res  |-> IF ok THEN ESP_OK ELSE ESP_FAIL]

----------------------------------------------------------------------------
(* Raw translator.  A translator state r is                                *)
(*   st     : the transport state                                          *)
(*   res    : the error of the failed transaction, or ESP_OK               *)
(*   offset, len : the uint8_t parameters as the code updates them         *)
(*   done   : bytes consumed so far (the advance of the data pointer)      *)
(*   buf    : the caller's buffer                                          *)

\* memcpy(dst + dstOff, src + srcOff, n) on 0-based pages / 1-based buffers
PageIntoBuf(buf, done, page, from, n) ==
    [i \in 1..Len(buf) |-> IF i > done /\ i <= done + n
                           THEN page[from + (i - done - 1)]
                           ELSE buf[i]]

BufIntoPage(page, at, buf, done, n) ==
    [i \in 0..(PageSize - 1) |-> IF i >= at /\ i < at + n
                                 THEN buf[done + (i - at) + 1]
                                 ELSE page[i]]

\* The 16 bytes at the data pointer.
BufPage(buf, done) == [i \in 0..(PageSize - 1) |-> buf[done + i + 1]]

Advance(r, st, buf, n) ==
    [r EXCEPT !.st = st, !.buf = buf, !.done = @ + n,
              !.len = @ - n, !.offset = U8(@ + n)]

Failed(r, st, res) == [r EXCEPT !.st = st, !.res = res]

\* First page misaligned read.
ReadRawHead(r) ==
    LET misalign == r.offset % PageSize
        rlen     == Min(PageSize - misalign, r.len)
        rd       == nt3h2111_read_page(r.st, r.offset \div PageSize, [i \in 0..(PageSize - 1) |-> 0])
    IN  IF misalign = 0 THEN r
        ELSE IF rd.res # ESP_OK THEN Failed(r, rd.st, rd.res)
        ELSE Advance(r, rd.st, PageIntoBuf(r.buf, r.done, rd.data, misalign, rlen), rlen)

\* Intermediary pages aligned read.
RECURSIVE ReadRawMid(_)
ReadRawMid(r) ==
    IF r.res # ESP_OK \/ r.len < PageSize THEN r
    ELSE LET rd == nt3h2111_read_page(r.st, r.offset \div PageSize, BufPage(r.buf, r.done))
         IN  IF rd.res # ESP_OK THEN Failed(r, rd.st, rd.res)
             ELSE ReadRawMid(Advance(r, rd.st,
                                     PageIntoBuf(r.buf, r.done, rd.data, 0, PageSize),
                                     PageSize))

\* Last page misaligned read.
ReadRawTail(r) ==
    IF r.res # ESP_OK \/ r.len = 0 THEN r
    ELSE LET rd == nt3h2111_read_page(r.st, r.offset \div PageSize, [i \in 0..(PageSize - 1) |-> 0])
         IN  IF rd.res # ESP_OK THEN Failed(r, rd.st, rd.res)
             ELSE [r EXCEPT !.st = rd.st,
                            !.buf = PageIntoBuf(r.buf, r.done, rd.data, 0, r.len)]

RawStart(st, offset, len, buf) ==
    [st |-> st, res |-> ESP_OK, offset |-> U8(offset), len |-> U8(len),
     done |-> 0, buf |-> buf]

nt3h2111_read_raw(st, offset, len, buf) ==
    ReadRawTail(ReadRawMid(ReadRawHead(RawStart(st, offset, len, buf))))

\* First page: read, modify, re-write.
WriteRawHead(r) ==
    LET misalign == r.offset % PageSize
        rlen     == Min(PageSize - misalign, r.len)
        rd       == nt3h2111_read_page(r.st, r.offset \div PageSize, [i \in 0..(PageSize - 1) |-> 0])
        wr       == nt3h2111_write_page(rd.st, r.offset \div PageSize,
                                        BufIntoPage(rd.data, misalign, r.buf, r.done, rlen))
    IN  IF misalign = 0 THEN r
        ELSE IF rd.res # ESP_OK THEN Failed(r, rd.st, rd.res)
        ELSE IF wr.res # ESP_OK THEN Failed(r, wr.st, wr.res)
        ELSE Advance(r, wr.st, r.buf, rlen)

\* WriteRawMid with the loop going on after a failed write.
RECURSIVE WriteRawMid_Continue(_)
WriteRawMid_Continue(r) ==
    IF r.len < PageSize THEN r
    ELSE LET wr == nt3h2111_write_page(r.st, r.offset \div PageSize, BufPage(r.buf, r.done))
         IN  WriteRawMid_Continue([Advance(r, wr.st, r.buf, PageSize)
                                      EXCEPT !.res = IF wr.res # ESP_OK THEN wr.res ELSE @])

\* Intermediary pages: written whole.
RECURSIVE WriteRawMid(_)
WriteRawMid(r) ==
    IF r.res # ESP_OK \/ r.len < PageSize THEN r
    ELSE LET wr == nt3h2111_write_page(r.st, r.offset \div PageSize, BufPage(r.buf, r.done))
         IN  IF wr.res # ESP_OK THEN Failed(r, wr.st, wr.res)
             ELSE WriteRawMid(Advance(r, wr.st, r.buf, PageSize))

\* WriteRawTail with the copy taken from the start of the caller's buffer.
WriteRawTail_Restart(r) ==
    IF r.res # ESP_OK \/ r.len = 0 THEN r
    ELSE LET rd == nt3h2111_read_page(r.st, r.offset \div PageSize, [i \in 0..(PageSize - 1) |-> 0])
             wr == nt3h2111_write_page(rd.st, r.offset \div PageSize,
                                       BufIntoPage(rd.data, 0, r.buf, 0, r.len))
         IN  IF rd.res # ESP_OK THEN Failed(r, rd.st, rd.res)
             ELSE IF wr.res # ESP_OK THEN Failed(r, wr.st, wr.res)
             ELSE [r EXCEPT !.st = wr.st]

\* Last page: read, modify, re-write.
WriteRawTail(r) ==
    IF r.res # ESP_OK \/ r.len = 0 THEN r
    ELSE LET rd == nt3h2111_read_page(r.st, r.offset \div PageSize, [i \in 0..(PageSize - 1) |-> 0])
             wr == nt3h2111_write_page(rd.st, r.offset \div PageSize,
                                       BufIntoPage(rd.data, 0, r.buf, r.done, r.len))
         IN  IF rd.res # ESP_OK THEN Failed(r, rd.st, rd.res)
             ELSE IF wr.res # ESP_OK THEN Failed(r, wr.st, wr.res)
             ELSE [r EXCEPT !.st = wr.st]

nt3h2111_write_raw(st, offset, len, buf) ==
    WriteRawTail(WriteRawMid(WriteRawHead(RawStart(st, offset, len, buf))))

----------------------------------------------------------------------------
(* Logical memory map                                                      *)

Ret(st, res, buf) == [st |-> st, res |-> res, buf |-> buf]

\* offset is uint16_t, len is uint8_t
nt3h2111_read_user(st, offset, len, buf) ==
    LET o == U16(offset)
        l == U8(len)
        r == nt3h2111_read_raw(st, UserBase + o, l, buf)
    IN  IF l = 0 THEN Ret(st, ESP_OK, buf)
        ELSE IF o + l > NT3H2111_USERDATA_LEN THEN Ret(st, ESP_ERR_INVALID_ARG, buf)
        ELSE Ret(r.st, r.res, r.buf)

\* nt3h2111_write_user with a bounds check that leaves out len.
nt3h2111_write_user_OffsetOnly(st, offset, len, buf) ==
    LET o == U16(offset)
        l == U8(len)
        r == nt3h2111_write_raw(st, UserBase + o, l, buf)
    IN  IF l = 0 THEN Ret(st, ESP_OK, buf)
        ELSE IF o > NT3H2111_USERDATA_LEN THEN Ret(st, ESP_ERR_INVALID_ARG, buf)
        ELSE Ret(r.st, r.res, r.buf)

nt3h2111_write_user(st, offset, len, buf) ==
    LET o == U16(offset)
        l == U8(len)
        r == nt3h2111_write_raw(st, UserBase + o, l, buf)
    IN  IF l = 0 THEN Ret(st, ESP_OK, buf)
        ELSE IF o + l > NT3H2111_USERDATA_LEN THEN Ret(st, ESP_ERR_INVALID_ARG, buf)
        ELSE Ret(r.st, r.res, r.buf)

\* offset and len are uint8_t
nt3h2111_read_sram(st, offset, len, buf) ==
    LET o == U8(offset)
        l == U8(len)
        r == nt3h2111_read_raw(st, SramBase + o, l, buf)
    IN  IF l = 0 THEN Ret(st, ESP_OK, buf)
        ELSE IF o + l > NT3H2111_SRAM_LEN THEN Ret(st, ESP_ERR_INVALID_ARG, buf)
        ELSE Ret(r.st, r.res, r.buf)

nt3h2111_write_sram(st, offset, len, buf) ==
    LET o == U8(offset)
        l == U8(len)
        r == nt3h2111_write_raw(st, SramBase + o, l, buf)
    IN  IF l = 0 THEN Ret(st, ESP_OK, buf)
        ELSE IF o + l > NT3H2111_SRAM_LEN THEN Ret(st, ESP_ERR_INVALID_ARG, buf)
        ELSE Ret(r.st, r.res, r.buf)

----------------------------------------------------------------------------
(* NDEF codec                                                              *)

\* What malloc(0) returns is implementation-defined: NULL or a pointer.
\* alloc = FALSE is a failed allocation; fill is the content of fresh heap
\* memory; junk is the content of the uninitialised page buffer tmp.
nt3h2111_get_ndef(st, junk, alloc, fill) ==
    LET rd       == nt3h2111_read_page(st, 1, junk)
        tmp      == rd.data
        ext      == tmp[1] = 255
        ndef_len == IF ext THEN tmp[2] * 256 + tmp[3] ELSE tmp[1]
        offset   == IF ext THEN 4 ELSE 2
        buf      == [i \in 1..ndef_len |-> fill]
        ru       == nt3h2111_read_user(rd.st, offset, ndef_len, buf)
    IN  IF tmp[0] # 3 THEN [st |-> rd.st, res |-> ESP_ERR_NOT_FOUND, len |-> 0, buf |-> <<>>]
        ELSE IF ~alloc THEN [st |-> rd.st, res |-> ESP_ERR_NO_MEM, len |-> 0, buf |-> <<>>]
        ELSE IF ru.res # ESP_OK THEN [st |-> ru.st, res |-> ru.res, len |-> 0, buf |-> <<>>]
        ELSE [st |-> ru.st, res |-> ESP_OK, len |-> ndef_len, buf |-> ru.buf]

\* len is size_t; the results of the payload write and of the terminator
\* write are not looked at.
\* nt3h2111_set_ndef with the size check one byte too lenient.
nt3h2111_set_ndef_Lenient(st, len, data) ==
    LET ext    == len >= 255
        tmp    == IF ext THEN <<3, 255, U8(len \div 256), U8(len)>> ELSE <<3, U8(len), 0, 0>>
        offset == IF ext THEN 4 ELSE 2
        hd     == nt3h2111_write_user(st, 0, offset, tmp)
        pl     == nt3h2111_write_user(hd.st, offset, len, data)
        tm     == nt3h2111_write_user(pl.st, offset + len, 1, <<254, tmp[2], tmp[3], tmp[4]>>)
    IN  IF len > NT3H2111_USERDATA_LEN - 4 THEN [st |-> st, res |-> ESP_ERR_NO_MEM]
        ELSE IF hd.res # ESP_OK THEN [st |-> hd.st, res |-> hd.res]
        ELSE [st |-> tm.st, res |-> ESP_OK]

nt3h2111_set_ndef(st, len, data) ==
    LET ext    == len >= 255
        tmp    == IF ext THEN <<3, 255, U8(len \div 256), U8(len)>> ELSE <<3, U8(len), 0, 0>>
        offset == IF ext THEN 4 ELSE 2
        hd     == nt3h2111_write_user(st, 0, offset, tmp)
        pl     == nt3h2111_write_user(hd.st, offset, len, data)
        tm     == nt3h2111_write_user(pl.st, offset + len, 1, <<254, tmp[2], tmp[3], tmp[4]>>)
    IN  IF len >= NT3H2111_USERDATA_LEN - 4 THEN [st |-> st, res |-> ESP_ERR_NO_MEM]
        ELSE IF hd.res # ESP_OK THEN [st |-> hd.st, res |-> hd.res]
        ELSE [st |-> tm.st, res |-> ESP_OK]

----------------------------------------------------------------------------
(* Device header fields                                                    *)

RECURSIVE BitOr(_, _)
BitOr(a, b) ==
    IF a = 0 THEN b
    ELSE IF b = 0 THEN a
    ELSE (IF a % 2 = 1 \/ b % 2 = 1 THEN 1 ELSE 0) + 2 * BitOr(a \div 2, b \div 2)

RECURSIVE Pow2(_)
Pow2(n) == IF n = 0 THEN 1 ELSE 2 * Pow2(n - 1)

\* Numbers wider than a byte are kept as their bytes, least significant
\* first: a uint32_t is a function on 0..3, a uint64_t a function on 0..7.

\* The part of ptr[i] << (i*8) that lands in byte d of the 32-bit out.
\* ptr[i] is promoted to a 32-bit int; a shift by 32 or more is undefined:
\* the build either shifts by the count modulo 32 or yields 0.
Contribution(v, i, d, ub) ==
    IF i < 4 THEN (IF d = i THEN v ELSE 0)
    ELSE IF ub = "wrap" /\ d = i % 4 THEN v
    ELSE 0

\* for (i = 0; i < bits/8; i++) out |= ptr[i] << (i*8);   byte d of out
RECURSIVE OutByte(_, _, _, _, _)
OutByte(bits, ptr, i, d, ub) ==
    IF i >= bits \div 8 THEN 0
    ELSE BitOr(Contribution(ptr[i + 1], i, d, ub), OutByte(bits, ptr, i + 1, d, ub))

\* GEN_RW_UINT(bits, uint32_t): type out, the return type, is 32 bits wide.
read_uint(bits, ptr, ub) == [d \in 0..3 |-> OutByte(bits, ptr, 0, d, ub)]

\* *serial = read_uint48(tmp): the uint32_t is widened to uint64_t.
Widen64(v) == [d \in 0..7 |-> IF d < 4 THEN v[d] ELSE 0]

\* ptr[i] = in >> (i*8)
write_uint32(in) == [i \in 1..4 |-> (in \div Pow2((i - 1) * 8)) % 256]

nt3h2111_get_serial(st, ub) ==
    LET r == nt3h2111_read_raw(st, 1, 6, FreshBuf(6))
    IN  [st |-> r.st, res |-> r.res,
         val |-> IF r.res = ESP_OK THEN Widen64(read_uint(48, r.buf, ub)) ELSE <<>>]

nt3h2111_get_cc(st, ub) ==
    LET r == nt3h2111_read_raw(st, 12, 4, FreshBuf(4))
    IN  [st |-> r.st, res |-> r.res,
         val |-> IF r.res = ESP_OK THEN read_uint(32, r.buf, ub) ELSE <<>>]

nt3h2111_set_cc(st, cc) ==
    LET r == nt3h2111_write_raw(st, 12, 4, write_uint32(cc))
    IN  [st |-> r.st, res |-> r.res]

----------------------------------------------------------------------------
(* Public calls, each run to completion by one execution context           *)

FailAt == 0..MaxFail
NdefFailAt == 0..MaxNdefFail

\* <<offset, len>> arguments of the calls
RawArgs  == { <<5, 3>>, <<5, 40>>, <<16, 32>>, <<250, 40>>, <<300, 3>>,
              <<2, 255>>, <<4090, 6>>, <<5, 0>>, <<16, 0>> }
UserArgs == { <<0, 4>>, <<300, 10>>, <<880, 4>>, <<880, 10>>, <<885, 0>> }
SramArgs == { <<3, 10>>, <<60, 4>>, <<60, 10>>, <<200, 100>>, <<65, 0>> }
NdefLens == {0, 1, 237, 254, 255, 879, 880}

Contexts == {"A", "B"}
NoReq    == [kind |-> "-", page |-> 0, data |-> <<>>, idx |-> 0, seen |-> 0, stamp |-> -1]

NoCall ==
    [op |-> "none", offset |-> 0, len |-> 0, data |-> <<>>, fail |-> 0,
     res |-> ESP_OK, out |-> <<>>, val |-> 0, alloc |-> TRUE, lwt0 |-> 0, t0 |-> 0,
     bus |-> <<>>]

\* The transport state a call starts from; f = 0: the bus fails nothing,
\* otherwise it fails the call's f-th transaction.
St(f) ==
    [mem |-> mem, last_write_time |-> last_write_time, now |-> now,
     bus |-> <<>>, failing |-> IF f = 0 THEN {} ELSE {f}]

Returns(op, offset, len, data, f, alloc, st, res, out, val) ==
    /\ ncalls < MaxCalls
    /\ mem' = st.mem
    /\ last_write_time' = st.last_write_time
    /\ now' = st.now
    /\ pre' = mem
    /\ prev' = call
    /\ call' = [op |-> op, offset |-> offset, len |-> len, data |-> data, fail |-> f,
                res |-> res, out |-> out, val |-> val, alloc |-> alloc,
                lwt0 |-> last_write_time, t0 |-> now, bus |-> st.bus]
    /\ ncalls' = ncalls + 1
    /\ UNCHANGED <<pc, req, tx>>

Return(op, offset, len, data, f, st, res, out, val) ==
    Returns(op, offset, len, data, f, TRUE, st, res, out, val)

ReadRaw ==
    \E a \in RawArgs, f \in FailAt :
        LET o == a[1]
            l == a[2]
            r == nt3h2111_read_raw(St(f), o, l, FreshBuf(l))
        IN  Return("read_raw", o, l, <<>>, f, r.st, r.res, r.buf, 0)

WriteRaw ==
    \E a \in RawArgs, f \in FailAt :
        LET o == a[1]
            l == a[2]
            d == DataBuf(l)
            r == nt3h2111_write_raw(St(f), o, l, d)
        IN  Return("write_raw", o, l, d, f, r.st, r.res, <<>>, 0)

ReadUser ==
    \E a \in UserArgs, f \in FailAt :
        LET o == a[1]
            l == a[2]
            r == nt3h2111_read_user(St(f), o, l, FreshBuf(l))
        IN  Return("read_user", o, l, <<>>, f, r.st, r.res, r.buf, 0)

WriteUser ==
    \E a \in UserArgs, f \in FailAt :
        LET o == a[1]
            l == a[2]
            d == DataBuf(l)
            r == nt3h2111_write_user(St(f), o, l, d)
        IN  Return("write_user", o, l, d, f, r.st, r.res, <<>>, 0)

ReadSram ==
    \E a \in SramArgs, f \in FailAt :
        LET o == a[1]
            l == a[2]
            r == nt3h2111_read_sram(St(f), o, l, FreshBuf(l))
        IN  Return("read_sram", o, l, <<>>, f, r.st, r.res, r.buf, 0)

WriteSram ==
    \E a \in SramArgs, f \in FailAt :
        LET o == a[1]
            l == a[2]
            d == DataBuf(l)
            r == nt3h2111_write_sram(St(f), o, l, d)
        IN  Return("write_sram", o, l, d, f, r.st, r.res, <<>>, 0)

\* Contents the uninitialised page buffer of get_ndef may hold.
JunkPages ==
    { [i \in 0..(PageSize - 1) |-> 0],
      [i \in 0..(PageSize - 1) |-> IF i = 0 THEN 3 ELSE IF i = 1 THEN 2 ELSE 165] }

GetNdef ==
    \E j \in JunkPages, a \in BOOLEAN, f \in NdefFailAt :
        LET r == nt3h2111_get_ndef(St(f), j, a, 165)
        IN  Returns("get_ndef", 0, 0, <<>>, f, a, r.st, r.res, r.buf, r.len)

SetNdef ==
    \E l \in NdefLens, f \in NdefFailAt :
        LET d == DataBuf(l)
            r == nt3h2111_set_ndef(St(f), l, d)
        IN  Return("set_ndef", 0, l, d, f, r.st, r.res, <<>>, 0)

\* Payload lengths on both sides of the size check of set_ndef.
EncodeLens == {0, 1, 254, 255, 879, 880, 881, 884, 1000}

SetNdefSized ==
    \E l \in EncodeLens, f \in FailAt :
        LET d == DataBuf(l)
            r == nt3h2111_set_ndef(St(f), l, d)
        IN  Return("set_ndef", 0, l, d, f, r.st, r.res, <<>>, 0)

\* Outcomes of the undefined shift in read_uint48.
ShiftOutcomes == {"wrap", "zero"}

\* Capability containers written by set_cc.
CcValues == {0, 225 + 16 * 256 + 109 * 65536, 64 * 16777216 + 255}

GetSerial ==
    \E ub \in ShiftOutcomes, f \in FailAt :
        LET r == nt3h2111_get_serial(St(f), ub)
        IN  Return("get_serial", 1, 6, <<>>, f, r.st, r.res, <<>>, r.val)

GetCc ==
    \E ub \in ShiftOutcomes, f \in FailAt :
        LET r == nt3h2111_get_cc(St(f), ub)
        IN  Return("get_cc", 12, 4, <<>>, f, r.st, r.res, <<>>, r.val)

SetCc ==
    \E cc \in CcValues, f \in FailAt :
        LET r == nt3h2111_set_cc(St(f), cc)
        IN  Return("set_cc", 12, 4, write_uint32(cc), f, r.st, r.res, <<>>, 0)

\* Multi-page ranges of a raw write that fails part-way.
FailArgs == { <<5, 40>>, <<16, 32>>, <<16, 40>>, <<250, 40>> }

WriteRawFailing ==
    \E a \in FailArgs, f \in 0..MaxRawFail :
        LET o == a[1]
            l == a[2]
            d == DataBuf(l)
            r == nt3h2111_write_raw(St(f), o, l, d)
        IN  Return("write_raw", o, l, d, f, r.st, r.res, <<>>, 0)

Init ==
    /\ mem \in {InitStore(s) : s \in 1..NumSeeds}
    /\ last_write_time = 0
    /\ now = 0
    /\ pre = mem
    /\ call = NoCall
    /\ prev = NoCall
    /\ ncalls = 0
    /\ pc = [c \in Contexts |-> "idle"]
    /\ req = [c \in Contexts |-> NoReq]
    /\ tx = <<>>

NextRaw == ReadRaw \/ WriteRaw
SpecRaw == Init /\ [][NextRaw]_vars

NextRegion == ReadUser \/ WriteUser \/ ReadSram \/ WriteSram
SpecRegion == Init /\ [][NextRegion]_vars

NextNdef == GetNdef \/ SetNdef
SpecNdef == Init /\ [][NextNdef]_vars

NextEncode == SetNdefSized
SpecEncode == Init /\ [][NextEncode]_vars

NextRawFail == WriteRawFailing
SpecRawFail == Init /\ [][NextRawFail]_vars

\* Chips that hold an NDEF envelope header at the start of the user data:
\* short headers of 5, 200 and 250 bytes, extended ones of 10, 256 and 880.
NdefHeaders ==
    { <<3, 5>>, <<3, 200>>, <<3, 250>>,
      <<3, 255, 0, 10>>, <<3, 255, 1, 0>>, <<3, 255, 3, 112>> }

NdefStore(h) ==
    [InitStore(1) EXCEPT ![1] = [i \in 0..(PageSize - 1) |->
                                    IF i < Len(h) THEN h[i + 1] ELSE @[i]]]

InitDecode ==
    /\ mem \in {NdefStore(h) : h \in NdefHeaders}
    /\ last_write_time = 0
    /\ now = 0
    /\ pre = mem
    /\ call = NoCall
    /\ prev = NoCall
    /\ ncalls = 0
    /\ pc = [c \in Contexts |-> "idle"]
    /\ req = [c \in Contexts |-> NoReq]
    /\ tx = <<>>

NextDecode == GetNdef
SpecDecode == InitDecode /\ [][NextDecode]_vars

NextHeader == GetSerial \/ GetCc \/ SetCc
SpecHeader == Init /\ [][NextHeader]_vars

----------------------------------------------------------------------------
(* Page transport step by step: the wait loop, the timestamp, the bus      *)
(* transaction and the clock are separate steps of an execution context.   *)
(*   pc[c]  : "idle", "wait" (in the while loop), "stamp" (before the      *)
(*            assignment to last_write_time), "xfer" (before the bus       *)
(*            call), "busy" (bus transaction in progress)                  *)
(*   req[c] : the page call in progress                                    *)
(*   tx     : every bus transaction, with the clock at its start and end   *)

PagePages  == {1}
WritePages == {248}
PageData  == [i \in 0..(PageSize - 1) |-> (200 + i) % 256]

PageIdle == UNCHANGED <<pre, call, prev, ncalls>>

\* nt3h2111_read_page(device, page, data) is called
CallReadPage(c) ==
    \E p \in PagePages :
        /\ pc[c] = "idle"
        /\ Len(tx) < MaxTx
        /\ pc' = [pc EXCEPT ![c] = "wait"]
        /\ req' = [req EXCEPT ![c] = [kind |-> "R", page |-> p, data |-> <<>>,
                                          idx |-> 0, seen |-> 0, stamp |-> -1]]
        /\ UNCHANGED <<mem, last_write_time, now, tx>>
        /\ PageIdle

\* nt3h2111_write_page(device, page, data) is called
CallWritePage(c) ==
    \E p \in WritePages :
        /\ pc[c] = "idle"
        /\ Len(tx) < MaxTx
        /\ pc' = [pc EXCEPT ![c] = "wait"]
        /\ req' = [req EXCEPT ![c] = [kind |-> "W", page |-> p, data |-> PageData,
                                          idx |-> 0, seen |-> 0, stamp |-> -1]]
        /\ UNCHANGED <<mem, last_write_time, now, tx>>
        /\ PageIdle

\* LeaveWait with the wait left out of the read path.
LeaveWait_ReadsPass(c) ==
    /\ pc[c] = "wait"
    /\ (req[c].kind = "W") => ~(last_write_time + CommitDelay > now)
    /\ pc' = [pc EXCEPT ![c] = IF req[c].kind = "W" THEN "stamp" ELSE "xfer"]
    /\ req' = [req EXCEPT ![c].seen = last_write_time]
    /\ UNCHANGED <<mem, last_write_time, now, tx>>
    /\ PageIdle

\* LeaveWait with the loop condition written against the current time.
LeaveWait_Never(c) ==
    /\ pc[c] = "wait"
    /\ ~(now + CommitDelay > now)
    /\ pc' = [pc EXCEPT ![c] = IF req[c].kind = "W" THEN "stamp" ELSE "xfer"]
    /\ req' = [req EXCEPT ![c].seen = last_write_time]
    /\ UNCHANGED <<mem, last_write_time, now, tx>>
    /\ PageIdle

\* LeaveWait with the comparison of the loop condition turned round.
LeaveWait_Early(c) ==
    /\ pc[c] = "wait"
    /\ ~(last_write_time + CommitDelay < now)
    /\ pc' = [pc EXCEPT ![c] = IF req[c].kind = "W" THEN "stamp" ELSE "xfer"]
    /\ req' = [req EXCEPT ![c].seen = last_write_time]
    /\ UNCHANGED <<mem, last_write_time, now, tx>>
    /\ PageIdle

\* One test of the loop condition that lets the context through;
\* a test that fails yields and changes nothing.  seen is the
\* last_write_time the test read.
LeaveWait(c) ==
    /\ pc[c] = "wait"
    /\ ~(last_write_time + CommitDelay > now)
    /\ pc' = [pc EXCEPT ![c] = IF req[c].kind = "W" THEN "stamp" ELSE "xfer"]
    /\ req' = [req EXCEPT ![c].seen = last_write_time]
    /\ UNCHANGED <<mem, last_write_time, now, tx>>
    /\ PageIdle

\* last_write_time = esp_timer_get_time();
Stamp(c) ==
    /\ pc[c] = "stamp"
    /\ last_write_time' = now
    /\ pc' = [pc EXCEPT ![c] = "xfer"]
    /\ req' = [req EXCEPT ![c].stamp = now]
    /\ UNCHANGED <<mem, now, tx>>
    /\ PageIdle

\* i2c_read_reg / i2c_write_reg_n starts its bus transaction
BeginTx(c) ==
    /\ pc[c] = "xfer"
    /\ tx' = Append(tx, [ctx |-> c, kind |-> req[c].kind, page |-> req[c].page,
                         start |-> now, end |-> -1, ok |-> TRUE,
                         stamp |-> req[c].stamp, seen |-> req[c].seen])
    /\ req' = [req EXCEPT ![c].idx = Len(tx) + 1]
    /\ pc' = [pc EXCEPT ![c] = "busy"]
    /\ UNCHANGED <<mem, last_write_time, now>>
    /\ PageIdle

\* the bus transaction completes, with or without an error, and the call returns
EndTx(c) ==
    \E ok \in BOOLEAN :
        /\ pc[c] = "busy"
        /\ tx' = [tx EXCEPT ![req[c].idx].end = now, ![req[c].idx].ok = ok]
        /\ mem' = IF ok /\ req[c].kind = "W"
                  THEN [mem EXCEPT ![req[c].page] = req[c].data]
                  ELSE mem
        /\ pc' = [pc EXCEPT ![c] = "idle"]
        /\ req' = [req EXCEPT ![c] = NoReq]
        /\ UNCHANGED <<last_write_time, now>>
        /\ PageIdle

\* esp_timer_get_time() advances; the clock stops at MaxTime unless a context
\* is in the wait loop and the loop condition still holds.
Tick ==
    /\ \/ now < MaxTime
       \/ \E c \in Contexts : pc[c] = "wait" /\ last_write_time + CommitDelay > now
    /\ now' = now + Quantum
    /\ UNCHANGED <<mem, last_write_time, pc, req, tx>>
    /\ PageIdle

NextPage ==
    \/ CallReadPage("A")
    \/ CallWritePage("A")
    \/ LeaveWait("A")
    \/ Stamp("A")
    \/ BeginTx("A")
    \/ EndTx("A")
    \/ Tick
SpecPage == Init /\ [][NextPage]_vars

\* The clock of the behaviours checked for progress: it stops at
\* MaxFairTime unless a context is still waiting for it.
TickFair ==
    /\ \/ now < MaxFairTime
       \/ \E c \in Contexts : pc[c] = "wait" /\ last_write_time + CommitDelay > now
    /\ Tick

NextPageFair ==
    \/ Len(tx) < MaxFairTx /\ CallReadPage("A")
    \/ Len(tx) < MaxFairTx /\ CallWritePage("A")
    \/ LeaveWait("A")
    \/ Stamp("A")
    \/ BeginTx("A")
    \/ EndTx("A")
    \/ TickFair

\* The clock keeps advancing and a context that can take a step is
\* rescheduled.
PageFairness ==
    /\ WF_vars(TickFair)
    /\ WF_vars(LeaveWait("A"))
    /\ WF_vars(Stamp("A"))
    /\ WF_vars(BeginTx("A"))
    /\ WF_vars(EndTx("A"))
SpecPageFair == Init /\ [][NextPageFair]_vars /\ PageFairness

\* Two execution contexts with no serialization between them.
NextConc ==
    \/ \E c \in Contexts :
           \/ Len(tx) < MaxConcTx /\ CallReadPage(c)
           \/ Len(tx) < MaxConcTx /\ CallWritePage(c)
           \/ LeaveWait(c)
           \/ Stamp(c)
           \/ BeginTx(c)
           \/ EndTx(c)
    \/ now < MaxConcTime /\ Tick
SpecConc == Init /\ [][NextConc]_vars

----------------------------------------------------------------------------
(* Properties                                                              *)

RawSize == NumPages * PageSize

NoBusFailure(c) == \A i \in 1..Len(c.bus) : c.bus[i].ok

\* m2 is m1 with the raw bytes [base, base + Len(data)) set to data.
StoreSetTo(m1, m2, base, data) ==
    \A pos \in 0..(RawSize - 1) :
        ByteAt(m2, pos) = IF pos >= base /\ pos < base + Len(data)
                          THEN data[pos - base + 1]
                          ELSE ByteAt(m1, pos)

\* C1: after a successful write_raw(offset, len, data) every byte of the
\* page store at a raw position outside [offset, offset + len) has the value
\* it had before the call.
C1_NoClobber ==
    (call.op = "write_raw" /\ call.res = ESP_OK /\ call.offset + call.len <= RawSize)
        => \A pos \in 0..(RawSize - 1) :
               (pos < call.offset \/ pos >= call.offset + call.len)
                   => ByteAt(mem, pos) = ByteAt(pre, pos)

\* C2: write_raw(offset, len, data) followed by read_raw(offset, len), with no
\* failed bus transaction, returns success and a buffer equal to data.
C2_RoundTrip ==
    (/\ call.op = "read_raw" /\ prev.op = "write_raw"
     /\ call.offset = prev.offset /\ call.len = prev.len
     /\ NoBusFailure(prev) /\ NoBusFailure(call))
        => /\ prev.res = ESP_OK
           /\ call.res = ESP_OK
           /\ call.out = prev.data

\* The round trip of a range that starts unaligned and runs over the end of
\* the 8-bit offset.
C2_Witness ==
    /\ call.op = "read_raw" /\ prev.op = "write_raw"
    /\ call.offset = 250 /\ prev.offset = 250 /\ call.len = 40 /\ prev.len = 40
    /\ NoBusFailure(prev) /\ NoBusFailure(call)
    /\ call.res = ESP_OK
    /\ call.out = DataBuf(40)

\* C3: a read_raw(offset, len) with offset + len <= 4096 and no failed bus
\* transaction returns success and output byte i is the store byte at raw
\* position offset + i.
C3_ReadAgrees ==
    (call.op = "read_raw" /\ call.offset + call.len <= RawSize /\ NoBusFailure(call))
        => /\ call.res = ESP_OK
           /\ \A i \in 1..call.len : call.out[i] = ByteAt(pre, call.offset + i - 1)

\* C4: for len > 0 and offset + len <= 884, write_user changes the page store
\* exactly by setting raw bytes [16 + offset, 16 + offset + len) to data and
\* addresses only pages 1..56; read_user returns the bytes at 16 + offset + i.
C4_UserMapping ==
    /\ (/\ call.op = "write_user" /\ call.len > 0
        /\ call.offset + call.len <= NT3H2111_USERDATA_LEN /\ NoBusFailure(call))
           => /\ call.res = ESP_OK
              /\ StoreSetTo(pre, mem, UserBase + call.offset, call.data)
              /\ \A i \in 1..Len(call.bus) : call.bus[i].page \in 1..56
    /\ (/\ call.op = "read_user" /\ call.len > 0
        /\ call.offset + call.len <= NT3H2111_USERDATA_LEN /\ NoBusFailure(call))
           => /\ call.res = ESP_OK
              /\ \A i \in 1..call.len :
                     call.out[i] = ByteAt(pre, UserBase + call.offset + i - 1)

\* C5: for len > 0 and offset + len <= 64, write_sram and read_sram issue bus
\* transactions only for pages 248..251; write_sram sets raw bytes
\* [3968 + offset, 3968 + offset + len) to data and leaves the header page
\* and the user-data pages 1..56 unchanged.
C5_SramMapping ==
    (/\ call.op \in {"read_sram", "write_sram"} /\ call.len > 0
     /\ call.offset + call.len <= NT3H2111_SRAM_LEN)
        => /\ \A i \in 1..Len(call.bus) : call.bus[i].page \in 248..251
           /\ (call.op = "write_sram" /\ NoBusFailure(call))
                  => /\ \A i \in 1..call.len :
                            ByteAt(mem, SramBase + call.offset + i - 1) = call.data[i]
                     /\ \A p \in 0..56 : mem[p] = pre[p]

\* C6: set_ndef(len, payload) with len in 0..879 followed by get_ndef, with no
\* failed bus transaction and no failed allocation, returns success, the
\* length len and a buffer equal to payload.
C6_NdefRoundTrip ==
    (/\ call.op = "get_ndef" /\ prev.op = "set_ndef"
     /\ prev.len <= 879
     /\ NoBusFailure(prev) /\ NoBusFailure(call) /\ call.alloc)
        => /\ call.res = ESP_OK
           /\ call.val = prev.len
           /\ call.out = prev.data

\* C7: after a successful set_ndef(len, payload) the user-data region holds
\* 0x03 len for len <= 254 and 0x03 0xFF (len >> 8) (len & 0xFF) for
\* 255 <= len < 880, then the payload, then 0xFE.
C7_HeaderForm ==
    (call.op = "set_ndef" /\ call.res = ESP_OK /\ NoBusFailure(call))
        => LET hdr == IF call.len <= 254
                      THEN <<3, call.len>>
                      ELSE <<3, 255, call.len \div 256, call.len % 256>>
               env == hdr \o call.data \o <<254>>
           IN  \A i \in 1..Len(env) : ByteAt(mem, UserBase + i - 1) = env[i]

\* C8: of two page writes issued one after the other by one execution
\* context, the second's bus transaction starts no earlier than 5000 us after
\* the first's bus transaction completed.
C8_WriteGap ==
    \A i \in 1..(Len(tx) - 1) :
        (/\ tx[i].kind = "W" /\ tx[i + 1].kind = "W"
         /\ tx[i].ctx = tx[i + 1].ctx /\ tx[i].end >= 0)
            => tx[i + 1].start >= tx[i].end + CommitDelay

RegionLen(op) == IF op \in {"read_user", "write_user"}
                 THEN NT3H2111_USERDATA_LEN ELSE NT3H2111_SRAM_LEN

RegionOps == {"read_user", "write_user", "read_sram", "write_sram"}

Rejected ==
    /\ call.res = ESP_ERR_INVALID_ARG
    /\ call.bus = <<>>
    /\ mem = pre
    /\ last_write_time = call.lwt0

C10_FailFast ==
    \A i \in 1..Len(call.bus) :
        (/\ ~call.bus[i].ok
         /\ ~(call.op = "set_ndef" /\ i > 2 /\ i > Len(call.bus) - 2))
            => call.res = ESP_FAIL

\* C11: set_ndef fails with ESP_ERR_NO_MEM, without any bus transaction and
\* without changing the chip or the timestamp, exactly when len >= 884 - 4;
\* every len in 0..879 passes the size check and goes on to the header write.
C11_SizeThreshold ==
    (call.op = "set_ndef")
        => /\ (call.res = ESP_ERR_NO_MEM) <=> (call.len >= NT3H2111_USERDATA_LEN - 4)
           /\ (call.len >= NT3H2111_USERDATA_LEN - 4)
                  => (call.bus = <<>> /\ mem = pre /\ last_write_time = call.lwt0)
           /\ (call.len < NT3H2111_USERDATA_LEN - 4) => Len(call.bus) > 0

\* set_ndef(880) is refused and set_ndef(879) was let through before it.
C11_Witness ==
    /\ call.op = "set_ndef" /\ call.len = 880
    /\ call.res = ESP_ERR_NO_MEM /\ call.bus = <<>>
    /\ prev.op = "set_ndef" /\ prev.len = 879 /\ prev.res = ESP_OK

RawOps == {"read_raw", "write_raw"}

\* C12: a call with len = 0 to read_raw, write_raw, read_user, write_user,
\* read_sram or write_sram, at any offset, performs no bus transaction, leaves
\* the page store and the write-commit timestamp unchanged and returns success.
C12_ZeroLength ==
    (call.op \in (RawOps \cup RegionOps) /\ call.len = 0)
        => /\ call.res = ESP_OK
           /\ call.bus = <<>>
           /\ mem = pre
           /\ last_write_time = call.lwt0

\* C13: get_serial returns success with the 48-bit little-endian value of raw
\* bytes 1..6 (byte 1 + i is bits 8i..8i+7, all six bytes kept) and issues
\* only a read of page 0.
C13_Serial48 ==
    (call.op = "get_serial" /\ NoBusFailure(call))
        => /\ call.res = ESP_OK
           /\ call.val = [d \in 0..7 |-> IF d < 6 THEN ByteAt(pre, 1 + d) ELSE 0]
           /\ \A i \in 1..Len(call.bus) : call.bus[i].kind = "R" /\ call.bus[i].page = 0

FirstPage(offset) == offset \div PageSize
LastPage(offset, len) == (offset + len - 1) \div PageSize
FullyCovered(p, offset, len) ==
    offset <= p * PageSize /\ (p + 1) * PageSize <= offset + len

\* The transactions, as <<kind, page>>, of a write of pages p..last of the
\* range: one write per page, after one read of it when it is partly covered.
RECURSIVE WritePlan(_, _, _, _)
WritePlan(p, last, offset, len) ==
    IF p > last THEN <<>>
    ELSE (IF FullyCovered(p, offset, len) THEN << <<"W", p>> >>
          ELSE << <<"R", p>>, <<"W", p>> >>)
         \o WritePlan(p + 1, last, offset, len)

RECURSIVE ReadPlan(_, _)
ReadPlan(p, last) ==
    IF p > last THEN <<>> ELSE << <<"R", p>> >> \o ReadPlan(p + 1, last)

BusPlan(c) == [i \in 1..Len(c.bus) |-> <<c.bus[i].kind, c.bus[i].page>>]

\* C15: for len > 0, write_raw visits the pages overlapping
\* [offset, offset + len) in ascending order, issuing one write per page,
\* preceded by one read of that page iff the page is partly covered; read_raw
\* issues one read per overlapping page; no other page is addressed and no
\* page is read twice.
C15_PageSequence ==
    (/\ call.op \in RawOps /\ call.len > 0
     /\ call.offset + call.len <= RawSize /\ NoBusFailure(call))
        => BusPlan(call) =
               IF call.op = "write_raw"
               THEN WritePlan(FirstPage(call.offset), LastPage(call.offset, call.len),
                              call.offset, call.len)
               ELSE ReadPlan(FirstPage(call.offset), LastPage(call.offset, call.len))

\* The index of the failed transaction of call c, 0 if none failed.
FailedTx(c) ==
    IF NoBusFailure(c) THEN 0
    ELSE CHOOSE k \in 1..Len(c.bus) : ~c.bus[k].ok /\ \A i \in 1..(k - 1) : c.bus[i].ok

\* The writes of call c to page p that completed.
WritesTo(c, p) ==
    {i \in 1..Len(c.bus) : c.bus[i].kind = "W" /\ c.bus[i].page = p /\ c.bus[i].ok}

Latest(S) == CHOOSE i \in S : \A j \in S : j <= i

\* C16: when the k-th page transaction of write_raw fails, the call returns
\* the bus error and issues no further transaction; a page whose write
\* completed holds what was written (on the pages of the range: the data on
\* the bytes of the range, the old bytes elsewhere) and every other page
\* holds its content from before the call.
C16_PartialWrite ==
    (call.op = "write_raw" /\ ~NoBusFailure(call))
        => /\ call.res = ESP_FAIL
           /\ Len(call.bus) = FailedTx(call)
           /\ \A p \in 0..(NumPages - 1) :
                  IF WritesTo(call, p) = {}
                  THEN mem[p] = pre[p]
                  ELSE /\ mem[p] = call.bus[Latest(WritesTo(call, p))].data
                       /\ (p >= FirstPage(call.offset) /\ p <= LastPage(call.offset, call.len))
                              => \A j \in 0..(PageSize - 1) :
                                     LET pos == p * PageSize + j
                                     IN  mem[p][j] =
                                             IF pos >= call.offset /\ pos < call.offset + call.len
                                             THEN call.data[pos - call.offset + 1]
                                             ELSE pre[p][j]

\* write_raw(5, 40) whose 4th transaction, the read of the last page, fails:
\* pages 0 and 1 are written, page 2 is as before.
C16_Witness ==
    /\ call.op = "write_raw" /\ call.offset = 5 /\ call.len = 40
    /\ FailedTx(call) = 4 /\ call.res = ESP_FAIL
    /\ mem[0] # pre[0] /\ mem[1] = BufPage(call.data, 11) /\ mem[1] # pre[1]
    /\ mem[2] = pre[2]

\* User-data byte i of a page store.
UserByte(m, i) == ByteAt(m, UserBase + i)

DeclaredExt(m) == UserByte(m, 1) = 255
DeclaredLen(m) == IF DeclaredExt(m) THEN UserByte(m, 2) * 256 + UserByte(m, 3)
                  ELSE UserByte(m, 1)
DeclaredAt(m)  == IF DeclaredExt(m) THEN 4 ELSE 2

\* C17: on a store whose user-data byte 0 is 0x03 and whose declared envelope
\* (length L at payload offset p) ends inside the 884 bytes of user data,
\* get_ndef, with no bus or allocation failure, returns success, the length L
\* and the L user-data bytes [p, p + L).
C17_DecodeEnvelope ==
    (/\ call.op = "get_ndef" /\ NoBusFailure(call) /\ call.alloc
     /\ UserByte(pre, 0) = 3
     /\ DeclaredAt(pre) + DeclaredLen(pre) <= NT3H2111_USERDATA_LEN)
        => /\ call.res = ESP_OK
           /\ call.val = DeclaredLen(pre)
           /\ call.out = [i \in 1..DeclaredLen(pre) |->
                             UserByte(pre, DeclaredAt(pre) + i - 1)]

\* C20: for len in 0..879, set_ndef issues page transactions only for pages
\* 1..56, leaves page 0 and every page outside the user-data region unchanged
\* and changes, inside the region, only user-data bytes
\* [0, headerLen + len + 1).
C20_EncodeInRegion ==
    (call.op = "set_ndef" /\ call.len <= 879)
        => LET used == (IF call.len >= 255 THEN 4 ELSE 2) + call.len + 1
           IN  /\ \A i \in 1..Len(call.bus) : call.bus[i].page \in 1..56
               /\ \A p \in (0..(NumPages - 1)) \ (1..56) : mem[p] = pre[p]
               /\ \A i \in used..(NT3H2111_USERDATA_LEN - 1) :
                      UserByte(mem, i) = UserByte(pre, i)

\* The write transactions started before transaction j.
WritesBefore(j) == {i \in 1..(j - 1) : tx[i].kind = "W"}

\* C14: with one execution context, every bus transaction of read_page or
\* write_page starts at a time t >= T + 5000, T being the timestamp recorded
\* by the most recent write_page call before it.
C14_Interlock ==
    \A j \in 1..Len(tx) :
        WritesBefore(j) # {}
            => tx[j].start >= tx[Latest(WritesBefore(j))].stamp + CommitDelay

\* A read of page 1 that waited for, and started exactly at, the end of the
\* commit interval of a write to page 248.
C14_Witness ==
    /\ Len(tx) >= 2
    /\ tx[1].kind = "W" /\ tx[1].page = 248
    /\ tx[2].kind = "R" /\ tx[2].page = 1
    /\ tx[2].start = tx[1].stamp + CommitDelay

\* C18: with two execution contexts and no lock, a transaction that starts
\* less than 5000 us after another context's write was stamped is always one
\* whose loop test read last_write_time before that stamp (the test and the
\* update are not atomic); such a transaction is reachable.
C18_RaceWindow ==
    \A i \in 1..Len(tx) : \A j \in (i + 1)..Len(tx) :
        (/\ tx[i].kind = "W" /\ tx[i].ctx # tx[j].ctx
         /\ tx[j].start < tx[i].stamp + CommitDelay)
            => tx[j].seen < tx[i].stamp

\* A transaction of one context on the bus less than 5000 us after a write
\* of the other context.
C18_Witness ==
    \E i \in 1..Len(tx) : \E j \in (i + 1)..Len(tx) :
        /\ tx[i].kind = "W" /\ tx[i].ctx # tx[j].ctx
        /\ tx[j].start >= tx[i].start
        /\ tx[j].start < tx[i].stamp + CommitDelay

\* C19: with the clock advancing and the context rescheduled, every call of
\* read_page or write_page leaves its wait loop and starts its bus
\* transaction.
C19_WaitEnds == (pc["A"] = "wait") ~> (pc["A"] = "busy")

\* A second write that had to wait for the first one's commit interval and
\* is now on the bus.
C19_Witness ==
    /\ Len(tx) = 2 /\ pc["A"] = "busy"
    /\ tx[1].kind = "W" /\ tx[2].kind = "W"
    /\ tx[2].seen = tx[1].stamp
    /\ tx[2].start >= tx[1].stamp + CommitDelay
    /\ tx[1].end < tx[1].stamp + CommitDelay

====
